---- MODULE Spec2Model ----
(***************************************************************************)
(* Model of sailing_rec_UI_v1.py: a four-step Streamlit wizard (upload,    *)
(* preferences, weights, recommendations) over st.session_state, and the   *)
(* scoring routine create_dummy_recommendations_with_scores.               *)
(*                                                                         *)
(* One action is one rerun of the script (main) caused by one user event:  *)
(* choosing a step in the sidebar radio, changing a widget of the step     *)
(* shown, or pressing the button.  Widgets that are not rendered in a      *)
(* rerun lose their value and show their default when rendered again.      *)
(*                                                                         *)
(* Match Scores are kept in hundredths (round(x, 2) * 100), normalized     *)
(* weights as exact fractions <<numerator, denominator>>.                  *)
(***************************************************************************)
EXTENDS Integers, Sequences, FiniteSets, TLC

VARIABLES
    step,               \* the sidebar radio of the last rerun, 1..4
    uploaded_file,      \* st.session_state.uploaded_file: None or <<file>>
    preferences,        \* st.session_state.preferences: EmptyDict or <<dict>>
    weights,            \* st.session_state.weights: EmptyDict or <<dict>>
    sliders,            \* the four sliders as last rendered by handle_weights
    status,             \* what the last rerun reported (st.warning/error/success)
    original_df,        \* handle_recommendations' original_df after scoring
    recommendations_df, \* handle_recommendations' recommendations_df
    indexer,            \* the row order sort_values chose (input positions)
    export              \* the sheets written to the download workbook

vars == <<step, uploaded_file, preferences, weights, sliders, status,
          original_df, recommendations_df, indexer, export>>

session == <<uploaded_file, preferences, weights>>

----------------------------------------------------------------------------
(* Bounds of the model *)

\* longest dataset drawn for scoring
MaxRows == 3

----------------------------------------------------------------------------
(* Values *)

None == <<>>
EmptyDict == <<>>
Some(x) == <<x>>
Get(opt) == opt[1]

Range(s) == {s[i] : i \in 1..Len(s)}

RECURSIVE SumSeq(_)
SumSeq(s) == IF s = <<>> THEN 0 ELSE s[1] + SumSeq(Tail(s))

Min(S) == CHOOSE x \in S : \A y \in S : x <= y
Max(S) == CHOOSE x \in S : \A y \in S : x >= y

\* sequences over S of length at most n
SeqsUpTo(S, n) == UNION {[1..k -> S] : k \in 0..n}

\* s without every occurrence of x
Without(s, x) == SelectSeq(s, LAMBDA y : y # x)

----------------------------------------------------------------------------
(* Data frames: an ordered list of column names and a list of rows, each    *)
(* row a function from the column names to values.                         *)

ColShip == "Ship Code"
ColMonth == "Month"
ColPort == "Originating Port"
ColTheo == "Theo Adjustment"
ColScore == "Match Score"
ColRank == "Rank"

\* the fields the scoring of the specification needs
RequiredFields == {ColShip, ColMonth, ColPort, ColTheo}

Frame(cols, rows) == [columns |-> cols, rows |-> rows]

EmptyFrame == Frame(<<>>, <<>>)

\* a row cut down to the columns cols
Project(row, cols) == [c \in Range(cols) |-> row[c]]

\* a frame without the columns outside cols (order of the others kept)
DropTo(df, keep) ==
    LET cols == SelectSeq(df.columns, LAMBDA c : c \in keep)
    IN  Frame(cols, [i \in 1..Len(df.rows) |-> Project(df.rows[i], cols)])

\* the values of one column, in row order
Column(df, c) == [i \in 1..Len(df.rows) |-> df.rows[i][c]]

----------------------------------------------------------------------------
(* Uploaded workbooks *)

FullColumns == <<ColShip, ColMonth, ColPort, ColTheo>>

MkRow(ship, month, port, theo) ==
    [c \in RequiredFields |->
        CASE c = ColShip -> ship
          [] c = ColMonth -> month
          [] c = ColPort -> port
          [] OTHER -> theo]

\* the three records of the specification's worked example
Row1 == MkRow("A", 1, "X", 10)
Row2 == MkRow("B", 2, "Y", 20)
Row3 == MkRow("A", 1, "X", 30)

RowKinds == {Row1, Row2, Row3}

\* the column layouts a 'Master Sailings Grid' sheet is drawn with
ColumnChoices ==
    {FullColumns, <<ColShip, ColMonth, ColPort>>, <<ColMonth, ColPort, ColTheo>>}

\* a sheet with the columns cols holding the records rs
Grid(cols, rs) == Frame(cols, [i \in 1..Len(rs) |-> Project(rs[i], cols)])

File(name, hasSheet, grid) == [name |-> name, hasSheet |-> hasSheet, grid |-> grid]

ExampleFile == File("example.xlsx", TRUE, Grid(FullColumns, <<Row1, Row2, Row3>>))
NoTheoFile == File("notheo.xlsx", TRUE, Grid(<<ColShip, ColMonth, ColPort>>, <<Row1, Row2>>))
NoShipFile == File("noship.xlsx", TRUE, Grid(<<ColMonth, ColPort, ColTheo>>, <<Row2>>))
EmptyFile == File("empty.xlsx", TRUE, Grid(FullColumns, <<>>))
NoSheetFile == File("nosheet.xlsx", FALSE, EmptyFrame)

\* the workbooks a user of the wizard picks from
UploadChoices == {ExampleFile, NoTheoFile, NoShipFile, EmptyFile, NoSheetFile}

\* pd.read_excel(file, sheet_name='Master Sailings Grid'): raises when the
\* workbook has no such sheet
ReadExcelRaises(file) == ~file.hasSheet
ReadExcel(file) == file.grid

----------------------------------------------------------------------------
(* Widgets *)

DefaultShips == {"IC", "ST", "WN", "SY", "AL", "OV", "HM", "VY", "QN", "GR", "RH", "LB"}
DefaultPorts == {"MIA", "FLL", "PCA", "BAY", "NYC", "NOR"}
NumMonths == 12
SliderMin == 0
SliderMax == 10
SliderDefault == 3

Factors == {"ship", "month", "port", "theo"}

\* the options the user of the wizard picks among
ShipChoices == {"A", "B", "IC"}
MonthChoices == {1}
PortChoices == {"X", "MIA"}
SliderChoices == {0, 3}

\* the options of the ship multiselect: the distinct ship codes of the data,
\* or the built-in list when the sheet or the column is missing
AvailableShips(file) ==
    IF ReadExcelRaises(file) THEN DefaultShips
    ELSE IF ColShip \in Range(ReadExcel(file).columns)
         THEN Range(Column(ReadExcel(file), ColShip))
         ELSE DefaultShips

AvailablePorts(file) ==
    IF ReadExcelRaises(file) THEN DefaultPorts
    ELSE IF ColPort \in Range(ReadExcel(file).columns)
         THEN Range(Column(ReadExcel(file), ColPort))
         ELSE DefaultPorts

AvailableMonths == 1..NumMonths

\* a multiselect after the user clicks option x: selected last, or unselected
Toggle(list, x) == IF x \in Range(list) THEN Without(list, x) ELSE Append(list, x)

----------------------------------------------------------------------------
(* The locals of handle_recommendations exist only in the rerun that        *)
(* pressed the button.                                                     *)

ClearOutputs ==
    /\ original_df' = None
    /\ recommendations_df' = None
    /\ indexer' = <<>>
    /\ export' = None

----------------------------------------------------------------------------
(* Step 1 *)

\* handle_file_upload with the uploader holding `picked` (None or <<file>>)
HandleFileUpload(picked) ==
    /\ step' = 1
    /\ IF picked # None
       THEN /\ uploaded_file' = picked
            /\ status' = IF ReadExcelRaises(Get(picked))
                         THEN "upload_error" ELSE "upload_success"
       ELSE /\ UNCHANGED uploaded_file
            /\ status' = "upload_warning"
    /\ UNCHANGED <<preferences, weights, sliders>>
    /\ ClearOutputs

\* the user selects step 1 in the sidebar: the uploader is rendered empty
EnterUpload == step # 1 /\ HandleFileUpload(None)

\* the user drops a workbook on the uploader of step 1
UploadFile(f) == step = 1 /\ HandleFileUpload(Some(f))

----------------------------------------------------------------------------
(* Step 2 *)

\* a faulty handler: the check for an uploaded file is left out
HandlePreferencesUnguarded(ship_list, month_list, port_list) ==
    /\ step' = 2
    /\ preferences' =
          Some([ships |-> ship_list, months |-> month_list, ports |-> port_list])
    /\ status' = "preferences_saved"
    /\ UNCHANGED <<uploaded_file, weights, sliders>>
    /\ ClearOutputs

\* handle_preferences with the three multiselects holding the given lists
HandlePreferences(ship_list, month_list, port_list) ==
    /\ step' = 2
    /\ IF uploaded_file = None
       THEN /\ UNCHANGED preferences
            /\ status' = "upload_first"
       ELSE /\ preferences' =
                  Some([ships |-> ship_list, months |-> month_list, ports |-> port_list])
            /\ status' = "preferences_saved"
    /\ UNCHANGED <<uploaded_file, weights, sliders>>
    /\ ClearOutputs

\* the user selects step 2: the multiselects are rendered empty
EnterPreferences == step # 2 /\ HandlePreferences(<<>>, <<>>, <<>>)

\* the multiselects are on screen, holding what the last rerun saved
PreferencesShown == step = 2 /\ uploaded_file # None

ToggleShip(s) ==
    /\ PreferencesShown
    /\ s \in AvailableShips(Get(uploaded_file))
    /\ HandlePreferences(Toggle(Get(preferences).ships, s),
                         Get(preferences).months, Get(preferences).ports)

ToggleMonth(m) ==
    /\ PreferencesShown
    /\ m \in AvailableMonths
    /\ HandlePreferences(Get(preferences).ships,
                         Toggle(Get(preferences).months, m), Get(preferences).ports)

TogglePort(p) ==
    /\ PreferencesShown
    /\ p \in AvailablePorts(Get(uploaded_file))
    /\ HandlePreferences(Get(preferences).ships,
                         Get(preferences).months, Toggle(Get(preferences).ports, p))

----------------------------------------------------------------------------
(* Step 3 *)

\* a quotient a / b of the code, kept exact
Quotient(a, b) == <<a, b>>

\* a faulty total: the theo weight left out
TotalWeightWithoutTheo(ws) == ws[1] + ws[2] + ws[3]

\* total_weight = sum(weights)
TotalWeight(ws) == SumSeq(ws)

NormalizedWeights(sw, mw, pw, tw) ==
    LET total_weight == TotalWeight(<<sw, mw, pw, tw>>)
    IN  [ship |-> Quotient(sw, total_weight),
         month |-> Quotient(mw, total_weight),
         port |-> Quotient(pw, total_weight),
         theo |-> Quotient(tw, total_weight)]

\* the dict handle_weights saves
WeightsDict(sw, mw, pw, tw) ==
    [raw |-> [ship |-> sw, month |-> mw, port |-> pw, theo |-> tw],
     normalized |-> NormalizedWeights(sw, mw, pw, tw)]

\* a faulty handler: the check for all-zero weights is left out
HandleWeightsUnchecked(sw, mw, pw, tw) ==
    /\ step' = 3
    /\ IF uploaded_file = None
       THEN /\ UNCHANGED <<weights, sliders>>
            /\ status' = "upload_first"
       ELSE /\ sliders' = [ship |-> sw, month |-> mw, port |-> pw, theo |-> tw]
            /\ weights' = Some(WeightsDict(sw, mw, pw, tw))
            /\ status' = "weights_saved"
    /\ UNCHANGED <<uploaded_file, preferences>>
    /\ ClearOutputs

\* handle_weights with the four sliders at the given values
HandleWeights(sw, mw, pw, tw) ==
    /\ step' = 3
    /\ IF uploaded_file = None
       THEN /\ UNCHANGED <<weights, sliders>>
            /\ status' = "upload_first"
       ELSE /\ sliders' = [ship |-> sw, month |-> mw, port |-> pw, theo |-> tw]
            /\ IF \A w \in {sw, mw, pw, tw} : w = 0
               THEN /\ UNCHANGED weights
                    /\ status' = "weights_error"
               ELSE /\ weights' = Some(WeightsDict(sw, mw, pw, tw))
                    /\ status' = "weights_saved"
    /\ UNCHANGED <<uploaded_file, preferences>>
    /\ ClearOutputs

\* the user selects step 3: the sliders are rendered at their default
EnterWeights ==
    /\ step # 3
    /\ HandleWeights(SliderDefault, SliderDefault, SliderDefault, SliderDefault)

\* the user drags the slider of factor f to v
MoveSlider(f, v) ==
    /\ step = 3
    /\ uploaded_file # None
    /\ v \in SliderMin..SliderMax
    /\ v # sliders[f]
    /\ LET s == [sliders EXCEPT ![f] = v]
       IN  HandleWeights(s.ship, s.month, s.port, s.theo)

----------------------------------------------------------------------------
(* Data frame operations used by the scoring *)

\* df[name] = vals: pandas raises ValueError unless vals has one value per row
CanSetColumn(df, vals) == Len(vals) = Len(df.rows)

SetColumn(df, name, vals) ==
    Frame(IF name \in Range(df.columns) THEN df.columns ELSE Append(df.columns, name),
          [i \in 1..Len(df.rows) |-> (name :> vals[i]) @@ df.rows[i]])

\* df.insert(0, name, vals): pandas raises ValueError when the column exists
\* or vals has not one value per row
CanInsertColumn(df, name, vals) ==
    name \notin Range(df.columns) /\ Len(vals) = Len(df.rows)

InsertColumn(df, name, vals) ==
    Frame(<<name>> \o df.columns,
          [i \in 1..Len(df.rows) |-> (name :> vals[i]) @@ df.rows[i]])

Permutations1(n) == {p \in [1..n -> 1..n] : \A i, j \in 1..n : p[i] = p[j] => i = j}

\* the row orders df.sort_values(by, ascending=False) may return.  The call
\* leaves kind at its default 'quicksort', which pandas documents as not
\* stable: rows with equal keys come out in an order the library chooses.
SortIndexers(df, by) ==
    {p \in Permutations1(Len(df.rows)) :
        \A i \in 1..(Len(df.rows) - 1) : df.rows[p[i]][by] >= df.rows[p[i + 1]][by]}

\* a faulty take: the last row is lost
TakeAllButLast(df, p) ==
    Frame(df.columns,
          [i \in 1..(IF p = <<>> THEN 0 ELSE Len(p) - 1) |-> df.rows[p[i]]])

\* the rows of df in the order p, as a new frame; reset_index(drop=True)
\* renumbers the index, which is the position in rows
Take(df, p) == Frame(df.columns, [i \in 1..Len(p) |-> df.rows[p[i]]])

----------------------------------------------------------------------------
(* create_dummy_recommendations_with_scores *)

\* random.uniform(65, 95) rounded to two decimals, in hundredths
ScoreLo == 6500
ScoreHi == 9500

\* the scores drawn in the model
MatchScoreValues == {ScoreLo, ScoreHi}

\* a faulty copy: no copy is made, the name is bound to the caller's frame
AliasRef(src) == src

\* original_df.copy() is a new frame
DfCopyRef(src) == "copy"

\* a faulty count: one score too many
ScoreCountPlusOne(df) == Len(df.rows) + 1

\* range(len(recommendations)): one score per row
ScoreCount(df) == Len(df.rows)

\* a faulty rank: counted from 0
RankValuesFromZero(n) == [i \in 1..n |-> i - 1]

\* range(1, len(recommendations) + 1)
RankValues(n) == [i \in 1..n |-> i]

Raised == [ok |-> FALSE, original |-> EmptyFrame, recommendations |-> EmptyFrame,
           indexer |-> <<>>]

\* the call with the list `scores` drawn and the sort returning the order p.
\* Frames live in a heap so that a write through one name is seen through
\* every name bound to the same frame.
CreateDummyWith(df, scores, p) ==
    LET h0 == ("orig" :> df)
        rec == DfCopyRef("orig")
        h1 == (rec :> h0["orig"]) @@ h0
        h2 == (rec :> SetColumn(h1[rec], ColScore, scores)) @@ h1
        h3 == ("sorted" :> Take(h2[rec], p)) @@ h2
        rank == RankValues(Len(h3["sorted"].rows))
        h4 == ("sorted" :> InsertColumn(h3["sorted"], ColRank, rank)) @@ h3
    IN  IF ~CanInsertColumn(h3["sorted"], ColRank, rank) THEN Raised
        ELSE [ok |-> TRUE, original |-> h4["orig"], recommendations |-> h4["sorted"],
              indexer |-> p]

\* every way the call on df can end
CreateDummyOutcomes(df) ==
    UNION {IF ~CanSetColumn(df, scores) THEN {Raised}
           ELSE {CreateDummyWith(df, scores, p) :
                    p \in SortIndexers(SetColumn(df, ColScore, scores), ColScore)} :
           scores \in [1..ScoreCount(df) -> MatchScoreValues]}

----------------------------------------------------------------------------
(* Step 4 *)

SheetNames == <<"Master Sailings Grid", "Sailing Recommendations", "Preferences & Weights">>

\* the workbook offered for download; the text of the third sheet
\* (create_preferences_summary_sheet) is not modelled
Workbook(name, master, recs) ==
    [file_name |-> <<"sailing_recommendations_", name>>, sheets |-> SheetNames,
     master |-> master, recommendations |-> recs]

MissingSteps ==
    uploaded_file = None \/ preferences = EmptyDict \/ weights = EmptyDict

\* handle_recommendations; clicked says whether this rerun comes from the
\* button, r is how create_dummy_recommendations_with_scores ends
HandleRecommendations(clicked, r) ==
    /\ step' = 4
    /\ UNCHANGED <<uploaded_file, preferences, weights, sliders>>
    /\ IF MissingSteps
       THEN status' = "missing_steps" /\ ClearOutputs
       ELSE IF ~clicked
       THEN status' = "ready" /\ ClearOutputs
       ELSE IF ReadExcelRaises(Get(uploaded_file)) \/ ~r.ok
       THEN status' = "exception" /\ ClearOutputs
       ELSE /\ status' = "generated"
            /\ original_df' = Some(r.original)
            /\ recommendations_df' = Some(r.recommendations)
            /\ indexer' = r.indexer
            /\ export' = Some(Workbook(Get(uploaded_file).name, r.original,
                                       r.recommendations))

\* the user selects step 4
EnterRecommendations == step # 4 /\ HandleRecommendations(FALSE, Raised)

\* the button is on screen
ButtonShown == step = 4 /\ ~MissingSteps

\* the user presses 'Generate Recommendations'
ClickGenerate ==
    /\ ButtonShown
    /\ \E r \in (IF ReadExcelRaises(Get(uploaded_file)) THEN {Raised}
                 ELSE CreateDummyOutcomes(ReadExcel(Get(uploaded_file)))) :
          HandleRecommendations(TRUE, r)

----------------------------------------------------------------------------
(* The wizard *)

DefaultSliders ==
    [ship |-> SliderDefault, month |-> SliderDefault, port |-> SliderDefault,
     theo |-> SliderDefault]

\* the first run of the script: step 1, nothing uploaded
Init ==
    /\ step = 1
    /\ uploaded_file = None
    /\ preferences = EmptyDict
    /\ weights = EmptyDict
    /\ sliders = DefaultSliders
    /\ status = "upload_warning"
    /\ original_df = None
    /\ recommendations_df = None
    /\ indexer = <<>>
    /\ export = None

Next ==
    \/ EnterUpload
    \/ \E f \in UploadChoices : UploadFile(f)
    \/ EnterPreferences
    \/ \E s \in ShipChoices : ToggleShip(s)
    \/ \E m \in MonthChoices : ToggleMonth(m)
    \/ \E p \in PortChoices : TogglePort(p)
    \/ EnterWeights
    \/ \E f \in Factors, v \in SliderChoices : MoveSlider(f, v)
    \/ EnterRecommendations
    \/ ClickGenerate

Spec == Init /\ [][Next]_vars

----------------------------------------------------------------------------
(* The weights step alone, with every slider position 0..10 *)

NextWeights ==
    \/ \E f \in {ExampleFile} : UploadFile(f)
    \/ EnterWeights
    \/ \E f \in Factors, v \in SliderMin..SliderMax : MoveSlider(f, v)

SpecWeights == Init /\ [][NextWeights]_vars

----------------------------------------------------------------------------
(* The scoring alone: the wizard stands on step 4 with the button shown,    *)
(* for every dataset of at most MaxRows records, and the button is pressed *)
(* once.  Pressing it again is part of Spec.                               *)

BlankFile == File("blank.xlsx", TRUE, EmptyFrame)

ScoreFiles ==
    {File("data.xlsx", TRUE, Grid(cols, rs)) :
        cols \in ColumnChoices, rs \in SeqsUpTo(RowKinds, MaxRows)} \cup {BlankFile}

NoPreferences == [ships |-> <<>>, months |-> <<>>, ports |-> <<>>]
ExamplePreferences == [ships |-> <<"A">>, months |-> <<1>>, ports |-> <<"X">>]

\* the multiselects of step 2 offer what prefs holds
Selectable(prefs, file) ==
    /\ Range(prefs.ships) \subseteq AvailableShips(file)
    /\ Range(prefs.months) \subseteq AvailableMonths
    /\ Range(prefs.ports) \subseteq AvailablePorts(file)

ExampleWeights == WeightsDict(3, 3, 3, 1)

ScoreSessions ==
    {<<NoPreferences, WeightsDict(SliderDefault, SliderDefault, SliderDefault, SliderDefault)>>,
     <<ExamplePreferences, ExampleWeights>>}

InitScore ==
    /\ step = 4
    /\ uploaded_file \in {Some(f) : f \in ScoreFiles}
    /\ \E pw \in ScoreSessions :
          /\ Selectable(pw[1], Get(uploaded_file))
          /\ preferences = Some(pw[1])
          /\ weights = Some(pw[2])
          /\ sliders = pw[2].raw
    /\ status = "ready"
    /\ original_df = None
    /\ recommendations_df = None
    /\ indexer = <<>>
    /\ export = None

NextScore == status = "ready" /\ ClickGenerate

SpecScore == InitScore /\ [][NextScore]_vars

----------------------------------------------------------------------------
(* Properties *)

Generated == status = "generated"

\* the dataset the last rerun read
InputFrame == ReadExcel(Get(uploaded_file))
OutputFrame == Get(recommendations_df)
OutputRows == OutputFrame.rows

AllZero(s) == \A f \in Factors : s[f] = 0

Count(s, x) == Cardinality({i \in 1..Len(s) : s[i] = x})

\* the output without the two columns the scoring adds
Passthrough == DropTo(OutputFrame, Range(InputFrame.columns))

\* C1: pressing the button again on the same upload, preferences and weights
\* gives the same scored, ranked table as the press before.
C1_SameInputsSameOutput ==
    [][(Generated /\ Generated' /\ session' = session)
          => recommendations_df' = recommendations_df]_vars

\* C2: the output is in non-increasing Match Score order, and rows of equal
\* Match Score keep the relative order they have in the input.
C2_SortedDescendingStable ==
    Generated =>
        \A i, j \in 1..Len(OutputRows) :
            i < j =>
                /\ OutputRows[i][ColScore] >= OutputRows[j][ColScore]
                /\ OutputRows[i][ColScore] = OutputRows[j][ColScore]
                      => indexer[i] < indexer[j]

\* C3: the output has as many rows as the input, and its rows, without the
\* two added columns, are the input rows, each as often as in the input.
C3_OutputIsPermutation ==
    Generated =>
        /\ Len(OutputRows) = Len(InputFrame.rows)
        /\ Passthrough.columns = InputFrame.columns
        /\ \A r \in Range(InputFrame.rows) \cup Range(Passthrough.rows) :
              Count(Passthrough.rows, r) = Count(InputFrame.rows, r)

C3_Witness ==
    /\ Generated
    /\ Len(OutputRows) >= 3
    /\ indexer[1] # 1
    /\ \E i, j \in 1..Len(InputFrame.rows) : i # j /\ InputFrame.rows[i] = InputFrame.rows[j]

\* ship, month and port score 1 on a match or an empty preference, else 0
ListScore(list, x) == IF list = <<>> \/ x \in Range(list) THEN 1 ELSE 0

\* the min-max normalized profitability of a row, as <<numerator, denominator>>:
\* 1/2 when the whole dataset holds one value
TheoScore(df, row) ==
    LET vals == Range(Column(df, ColTheo))
    IN  IF Max(vals) = Min(vals) THEN <<1, 2>>
        ELSE <<row[ColTheo] - Min(vals), Max(vals) - Min(vals)>>

\* the Match Score of the specification holds for row, in hundredths:
\* score / 100 = 100 * sum of raw[f] / total * factor score[f]
HasWeightedScore(df, row, prefs, raw) ==
    LET total == raw.ship + raw.month + raw.port + raw.theo
        theo == TheoScore(df, row)
        matched == raw.ship * ListScore(prefs.ships, row[ColShip])
                     + raw.month * ListScore(prefs.months, row[ColMonth])
                     + raw.port * ListScore(prefs.ports, row[ColPort])
    IN  row[ColScore] * total * theo[2] = 10000 * (matched * theo[2] + raw.theo * theo[1])

\* C4: every Match Score is 100 times the weighted sum of the four factor
\* scores, and the worked example (ships A,B,A; months 1,2,1; ports X,Y,X;
\* profitability 10,20,30; preferences A, 1, X; weights 3,3,3,1) comes out as
\* records 3, 1, 2 with Match Scores 100, 90, 5.
C4_WeightedMatchScore ==
    (Generated /\ Range(InputFrame.columns) = RequiredFields) =>
        /\ \A i \in 1..Len(OutputRows) :
              HasWeightedScore(InputFrame, OutputRows[i], Get(preferences),
                               Get(weights).raw)
        /\ (/\ InputFrame = ExampleFile.grid
            /\ Get(preferences) = ExamplePreferences
            /\ Get(weights).raw = ExampleWeights.raw)
              => /\ Passthrough.rows = <<Row3, Row1, Row2>>
                 /\ Column(OutputFrame, ColScore) = <<10000, 9000, 500>>

\* C5: an all-zero slider setting is answered with the error, and while it
\* is the latest setting of the sliders no scored, ranked output is produced.
C5_AllZeroNeverScored ==
    AllZero(sliders) =>
        /\ step = 3 => status = "weights_error"
        /\ ~Generated
        /\ recommendations_df = None

\* C6: for sliders that are not all zero, handle_weights saves the slider
\* values as raw weights and, for each factor, the quotient raw / sum of the
\* four raw weights: a value in [0,1], 0 for a raw weight of 0, and the four
\* quotients sum to 1.
C6_NormalizedWeights ==
    (step = 3 /\ uploaded_file # None /\ ~AllZero(sliders)) =>
        /\ status = "weights_saved"
        /\ weights # EmptyDict
        /\ Get(weights).raw = sliders
        /\ LET raw == Get(weights).raw
               nw == Get(weights).normalized
               sum == raw.ship + raw.month + raw.port + raw.theo
           IN  /\ \A f \in Factors :
                     /\ nw[f][2] > 0
                     /\ nw[f][1] * sum = raw[f] * nw[f][2]
                     /\ 0 <= nw[f][1] /\ nw[f][1] <= nw[f][2]
                     /\ raw[f] = 0 => nw[f][1] = 0
               /\ nw.ship[1] * nw.month[2] * nw.port[2] * nw.theo[2]
                    + nw.month[1] * nw.ship[2] * nw.port[2] * nw.theo[2]
                    + nw.port[1] * nw.ship[2] * nw.month[2] * nw.theo[2]
                    + nw.theo[1] * nw.ship[2] * nw.month[2] * nw.port[2]
                  = nw.ship[2] * nw.month[2] * nw.port[2] * nw.theo[2]

C6_Witness ==
    /\ status = "weights_saved"
    /\ sliders = [ship |-> 10, month |-> 0, port |-> 7, theo |-> 1]
    /\ Get(weights).normalized.port = <<7, 18>>

\* C7: the Rank column holds 1..N, N the number of input rows, the row at
\* output position k having Rank k; a row with a strictly higher Match Score
\* has a strictly smaller Rank.
C7_RankIsPosition ==
    Generated =>
        /\ OutputFrame.columns[1] = ColRank
        /\ Len(OutputRows) = Len(InputFrame.rows)
        /\ \A k \in 1..Len(OutputRows) : OutputRows[k][ColRank] = k
        /\ \A i, j \in 1..Len(OutputRows) :
              OutputRows[i][ColScore] > OutputRows[j][ColScore]
                 => OutputRows[i][ColRank] < OutputRows[j][ColRank]

C7_Witness ==
    /\ Generated
    /\ Len(OutputRows) >= 3
    /\ OutputRows[1][ColScore] > OutputRows[3][ColScore]
    /\ indexer[1] > indexer[3]

\* C8: after the scoring, original_df is the dataset as read from the upload
\* (same rows, same order, same columns), and so is the 'Master Sailings
\* Grid' sheet of the download.
C8_SourceNotMutated ==
    Generated =>
        /\ original_df = Some(InputFrame)
        /\ Get(export).master = InputFrame
        /\ Get(export).recommendations = OutputFrame

C8_Witness ==
    /\ Generated
    /\ Len(InputFrame.rows) >= 2
    /\ indexer # [i \in 1..Len(indexer) |-> i]
    /\ ColScore \in Range(OutputFrame.columns)
    /\ ColScore \notin Range(Get(original_df).columns)

\* C9: with an upload that lacks one of the fields the scoring needs, no
\* scored, ranked output is produced.
C9_MissingFieldFails ==
    (uploaded_file # None /\ ~(RequiredFields \subseteq Range(Get(uploaded_file).grid.columns)))
        => (~Generated /\ recommendations_df = None)

\* C10: on a dataset of zero rows the button ends without an exception and
\* with an output of zero rows.
C10_EmptyDataset ==
    (/\ uploaded_file # None
     /\ ~ReadExcelRaises(Get(uploaded_file))
     /\ Len(InputFrame.rows) = 0) =>
        /\ status # "exception"
        /\ Generated => OutputRows = <<>> /\ Get(export).recommendations.rows = <<>>

C10_Witness ==
    /\ Generated
    /\ InputFrame.rows = <<>>
    /\ InputFrame.columns = FullColumns
    /\ OutputFrame.columns = <<ColRank>> \o FullColumns \o <<ColScore>>

\* the stored weight configuration w is one handle_weights may save: some
\* raw weight is above zero and each normalized weight is raw / sum of raw
ValidWeights(w) ==
    w # EmptyDict =>
        LET raw == Get(w).raw
            nw == Get(w).normalized
            sum == raw.ship + raw.month + raw.port + raw.theo
        IN  /\ \A f \in Factors : raw[f] \in SliderMin..SliderMax
            /\ \E f \in Factors : raw[f] > 0
            /\ \A f \in Factors :
                  nw[f][2] > 0 /\ nw[f][1] * sum = raw[f] * nw[f][2]

\* a rerun of handle_weights with the four sliders at zero
AllZeroSubmission == step' = 3 /\ uploaded_file # None /\ AllZero(sliders')

\* C11: in every reachable state session_state.weights is empty or valid
\* (a raw weight above zero, normalized = raw / sum of that raw part), and a
\* submission of four zero weights leaves it as it was.
C11_StoredWeightsValid ==
    [][/\ ValidWeights(weights)
       /\ ValidWeights(weights')
       /\ AllZeroSubmission => (weights' = weights /\ status' = "weights_error")]_vars

C11_Witness ==
    /\ step = 3
    /\ status = "weights_error"
    /\ AllZero(sliders)
    /\ weights # EmptyDict
    /\ Get(weights).raw # sliders
    /\ ValidWeights(weights)

\* every step of the wizard is complete
AllStepsComplete ==
    uploaded_file # None /\ preferences # EmptyDict /\ weights # EmptyDict

\* what is saved was saved with a file uploaded
SavedImpliesUploaded ==
    (preferences # EmptyDict \/ weights # EmptyDict) => uploaded_file # None

\* C12: in whatever order the steps are visited, recommendations are
\* generated only with a file uploaded, preferences saved and weights saved;
\* saved preferences or weights imply an uploaded file, since with no file
\* uploaded steps 2 and 3 save nothing, and an uploaded file is never reset.
C12_ScoringOnlyWhenComplete ==
    [][/\ SavedImpliesUploaded /\ SavedImpliesUploaded'
       /\ Generated' => (AllStepsComplete /\ AllStepsComplete')
       /\ recommendations_df' # None => (Generated' /\ AllStepsComplete')
       /\ uploaded_file = None => (preferences' = preferences /\ weights' = weights)
       /\ uploaded_file # None => uploaded_file' # None]_vars

\* recommendations generated after all three steps were completed, with a
\* ship selected and a slider moved off its default
C12_Witness ==
    /\ Generated
    /\ AllStepsComplete
    /\ Get(preferences).ships # <<>>
    /\ Get(weights).raw # DefaultSliders

====
